---- MODULE Spec2Model ----
(***************************************************************************)
(* serpent-tools: the detector reader (parsers/detector.py), the           *)
(* homogenized-universe container (objects/containers.py) and the depleted *)
(* material (objects/materials.py).                                        *)
(*                                                                         *)
(* Text is a sequence of one-character strings, so that slicing, lower-    *)
(* casing and substring tests are computed.  A numpy array is a record     *)
(* [nd, rows]: nd is the number of dimensions, rows the rows (a 1-D array  *)
(* has its entries in rows[1]).  Python's None is a flag beside the value. *)
(* Floats are integers: the code only compares them and copies them.       *)
(***************************************************************************)
EXTENDS Integers, Sequences, FiniteSets, TLC

VARIABLES
    \* DetectorReader
    fileChunks,     \* the chunks of the file at self.filePath
    names,          \* self.settings['names']
    _loadAll,       \* self._loadAll
    detectors,      \* self.detectors: name -> [tally, grids]
    detCount,       \* self.detCount
    chunkNo,        \* index of the next chunk parser.yieldChunks() yields
    pc,             \* where the reader is: precheck, read, postcheck, done, failed
    reported,       \* the messages _postcheck and a failing chunk have given
    \* HomogUniv
    infExp, infUnc, b1Exp, b1Unc,
    ucall,          \* the latest call on the universe
    uret,           \* what it returned or raised
    ulog,           \* the messages that call emitted
    \* DepletedMaterial
    isoNames,       \* self.names
    days,           \* self.days
    data,           \* self.data
    __burnup__, __adens__, __mdens__,
    mcall,          \* the latest call on the material
    mret            \* what it returned or raised

detVars == <<fileChunks, names, _loadAll, detectors, detCount, chunkNo, pc, reported>>
univVars == <<infExp, infUnc, b1Exp, b1Unc, ucall, uret, ulog>>
matVars == <<isoNames, days, data, __burnup__, __adens__, __mdens__, mcall, mret>>
vars == <<detVars, univVars, matVars>>

----------------------------------------------------------------------------
(* Text *)

Range(s) == {s[i] : i \in 1..Len(s)}

\* s[:-1]
Front(s) == IF Len(s) = 0 THEN s ELSE SubSeq(s, 1, Len(s) - 1)

\* s[n:]
DropFirst(s, n) == IF Len(s) <= n THEN <<>> ELSE SubSeq(s, n + 1, Len(s))

\* sub in s, for text
Contains(sub, s) ==
    \E i \in 0..(Len(s) - Len(sub)) : SubSeq(s, i + 1, i + Len(sub)) = sub

RECURSIVE Flatten(_)
Flatten(ss) == IF ss = <<>> THEN <<>> ELSE Head(ss) \o Flatten(Tail(ss))

----------------------------------------------------------------------------
(* Python values *)

\* an empty dict; no array; None where a list or an array may stand
NoMap == [n \in {} |-> 0]
NoArray == [nd |-> 0, rows |-> <<>>]
NotLoaded == [loaded |-> FALSE, v |-> <<>>]
NotCached == [cached |-> FALSE, array |-> NoArray]

\* how a call ends: with a value, or with an exception and its message
Returned(val) == [ok |-> TRUE, exc |-> "", msg |-> <<>>, val |-> val]
Raised(exc, msg) == [ok |-> FALSE, exc |-> exc, msg |-> msg, val |-> <<>>]

----------------------------------------------------------------------------
(* DetectorReader *)

NUM_COLS == 12

MaxChunks == 3

DET == <<"D", "E", "T">>
NoBin == "None"

\* A line of the file: its first token when that is a word (empty for a line
\* of numbers), and the numbers of the line.
HeaderLine(detString) == [tok0 |-> DET \o detString, row |-> <<>>]
DataLine(row) == [tok0 |-> <<>>, row |-> row]
EndLine == [tok0 |-> <<"]", ";">>, row |-> <<>>]

\* The chunk KeywordParser yields for one record: the start line, then the
\* lines up to the separator.
Chunk(detString, body) ==
    <<HeaderLine(detString)>> \o [i \in 1..Len(body) |-> DataLine(body[i])]

\* The lines of the file, as _precheck reads them.
FileLines(chunks) ==
    Flatten([i \in 1..Len(chunks) |-> chunks[i] \o <<EndLine>>])

\* Detector(detName) followed by addTallyData(data).
Detector(tallyData) == [tally |-> tallyData, grids |-> [b \in {} |-> <<>>]]

\* data[indx] = [float(xx) for xx in line.split()] into a row of ncols: numpy
\* takes a row of that length, and broadcasts a row of one number.
FitsRow(row, ncols) == Len(row) = ncols \/ Len(row) = 1
FillRow(row, ncols) == IF Len(row) = ncols THEN row ELSE [j \in 1..ncols |-> row[1]]

\* The array _addDetector builds from the chunk's lines.
ChunkData(body, binType) ==
    IF binType # NoBin /\ Len(body) = 0
    THEN [ok |-> FALSE, rows |-> <<>>]
    ELSE LET ncols == IF binType = NoBin THEN NUM_COLS ELSE Len(body[1].row)
         IN  IF \A i \in 1..Len(body) : FitsRow(body[i].row, ncols)
             THEN [ok |-> TRUE,
                   rows |-> [i \in 1..Len(body) |-> FillRow(body[i].row, ncols)]]
             ELSE [ok |-> FALSE, rows |-> <<>>]

addGridReplacingTally(dets, body, detName, binType) ==
    LET d == ChunkData(body, binType)
    IN  IF ~d.ok THEN [ok |-> FALSE, detectors |-> dets]
        ELSE [ok |-> TRUE,
              detectors |-> [n \in DOMAIN dets \cup {detName} |->
                                IF n = detName THEN Detector(d.rows) ELSE dets[n]]]

\* _addDetector: the detectors after the call, or the failure of the parse.
_addDetector(dets, body, detName, binType) ==
    LET d == ChunkData(body, binType)
    IN  IF ~d.ok THEN [ok |-> FALSE, detectors |-> dets]
        ELSE IF detName \notin DOMAIN dets
        THEN [ok |-> TRUE,
              detectors |-> [n \in DOMAIN dets \cup {detName} |->
                                IF n = detName THEN Detector(d.rows) ELSE dets[n]]]
        ELSE LET old == dets[detName]
                 grids == [b \in DOMAIN old.grids \cup {binType} |->
                              IF b = binType THEN d.rows ELSE old.grids[b]]
             IN  [ok |-> TRUE,
                  detectors |-> [dets EXCEPT ![detName] =
                                    [tally |-> old.tally, grids |-> grids]]]

\* detString = chunk.pop(0).split(' ')[0][3:]
DetString(chunk) == DropFirst(chunk[1].tok0, 3)
Body(chunk) == Tail(chunk)

\* detString[:-1] in self.detectors
isGridChunk(detString, dets) == Front(detString) \in DOMAIN dets

isTallyChunkAlways(detString, requested, loadAll) == TRUE

\* detString in self.settings['names'] or self._loadAll
isTallyChunk(detString, requested, loadAll) == detString \in requested \/ loadAll

\* the lines _precheck counts: those whose first token holds 'DET'
countDetLines(lines) ==
    Cardinality({i \in 1..Len(lines) : Contains(DET, lines[i].tok0)})

AfterChunk(res) ==
    /\ detectors' = res.detectors
    /\ IF res.ok
       THEN /\ chunkNo' = chunkNo + 1
            /\ UNCHANGED <<pc, reported>>
       ELSE /\ pc' = "failed"
            /\ reported' = reported \cup {"ValueError"}
            /\ UNCHANGED chunkNo
    /\ UNCHANGED <<fileChunks, names, _loadAll, detCount>>

Precheck ==
    /\ pc = "precheck"
    /\ detCount' = detCount + countDetLines(FileLines(fileChunks))
    /\ pc' = "read"
    /\ UNCHANGED <<fileChunks, names, _loadAll, detectors, chunkNo, reported>>
    /\ UNCHANGED <<univVars, matVars>>

ReadGridChunk ==
    /\ pc = "read"
    /\ chunkNo <= Len(fileChunks)
    /\ LET chunk == fileChunks[chunkNo]
           detString == DetString(chunk)
       IN  /\ isGridChunk(detString, detectors)
           /\ AfterChunk(_addDetector(detectors, Body(chunk), Front(detString),
                                      detString[Len(detString)]))
    /\ UNCHANGED <<univVars, matVars>>

ReadTallyChunk ==
    /\ pc = "read"
    /\ chunkNo <= Len(fileChunks)
    /\ LET chunk == fileChunks[chunkNo]
           detString == DetString(chunk)
       IN  /\ ~isGridChunk(detString, detectors)
           /\ isTallyChunk(detString, names, _loadAll)
           /\ AfterChunk(_addDetector(detectors, Body(chunk), detString, NoBin))
    /\ UNCHANGED <<univVars, matVars>>

SkipChunk ==
    /\ pc = "read"
    /\ chunkNo <= Len(fileChunks)
    /\ LET detString == DetString(fileChunks[chunkNo])
       IN  /\ ~isGridChunk(detString, detectors)
           /\ ~isTallyChunk(detString, names, _loadAll)
    /\ chunkNo' = chunkNo + 1
    /\ UNCHANGED <<fileChunks, names, _loadAll, detectors, detCount, pc, reported>>
    /\ UNCHANGED <<univVars, matVars>>

ReadDone ==
    /\ pc = "read"
    /\ chunkNo > Len(fileChunks)
    /\ pc' = "postcheck"
    /\ UNCHANGED <<fileChunks, names, _loadAll, detectors, detCount, chunkNo, reported>>
    /\ UNCHANGED <<univVars, matVars>>

countBelow(count, dets) == count < Cardinality(DOMAIN dets)

\* self.detCount != len(self.detectors)
countMismatch(count, dets) == count # Cardinality(DOMAIN dets)

Mismatch == "Did not parse expected number of detectors in file"

Postcheck ==
    /\ pc = "postcheck"
    /\ reported' = IF countMismatch(detCount, detectors)
                   THEN reported \cup {Mismatch}
                   ELSE reported
    /\ pc' = "done"
    /\ UNCHANGED <<fileChunks, names, _loadAll, detectors, detCount, chunkNo>>
    /\ UNCHANGED <<univVars, matVars>>

----------------------------------------------------------------------------
(* Variable names *)

UpperCase == <<"A", "B", "C", "D", "E", "F", "G", "H", "I", "J", "K", "L", "M",
               "N", "O", "P", "Q", "R", "S", "T", "U", "V", "W", "X", "Y", "Z">>
LowerCase == <<"a", "b", "c", "d", "e", "f", "g", "h", "i", "j", "k", "l", "m",
               "n", "o", "p", "q", "r", "s", "t", "u", "v", "w", "x", "y", "z">>

Lower(c) == IF \E i \in 1..26 : UpperCase[i] = c
            THEN LowerCase[CHOOSE i \in 1..26 : UpperCase[i] = c] ELSE c
Upper(c) == IF \E i \in 1..26 : LowerCase[i] = c
            THEN UpperCase[CHOOSE i \in 1..26 : LowerCase[i] = c] ELSE c

\* str.lower and str.capitalize
LowerAll(w) == [i \in 1..Len(w) |-> Lower(w[i])]
Capitalize(w) == [i \in 1..Len(w) |-> IF i = 1 THEN Upper(w[i]) ELSE Lower(w[i])]

\* str.split(sep)
RECURSIVE Split(_, _)
Split(s, sep) ==
    IF \A i \in 1..Len(s) : s[i] # sep
    THEN <<s>>
    ELSE LET i == CHOOSE k \in 1..Len(s) :
                     s[k] = sep /\ \A j \in 1..(k - 1) : s[j] # sep
         IN  <<SubSeq(s, 1, i - 1)>> \o Split(SubSeq(s, i + 1, Len(s)), sep)

\* _convertVariableName: a SERPENT name, such as INF_KINF, in camelCase
_convertVariableName(variable) ==
    LET items == Split(variable, "_")
    IN  LowerAll(items[1])
           \o Flatten([i \in 1..(Len(items) - 1) |-> Capitalize(items[i + 1])])

\* The names given to set, get and addData
INF_KINF == <<"I", "N", "F", "_", "K", "I", "N", "F">>
Inf_Kinf == <<"I", "n", "f", "_", "K", "i", "n", "f">>
B1_KINF == <<"B", "1", "_", "K", "I", "N", "F">>
B1_ABS == <<"B", "1", "_", "A", "B", "S">>
ABS_INF == <<"A", "B", "S", "_", "I", "N", "F">>
VariableNames == {INF_KINF, Inf_Kinf, B1_KINF, B1_ABS, ABS_INF}
BURNUP == <<"B", "U", "R", "N", "U", "P">>
ADENS == <<"A", "D", "E", "N", "S">>
MDENS == <<"M", "D", "E", "N", "S">>
Categories == {BURNUP, ADENS, MDENS}

\* _convertVariableName of each of them
Converted == [v \in VariableNames \cup Categories |-> _convertVariableName(v)]

----------------------------------------------------------------------------
(* HomogUniv *)

inf == <<"i", "n", "f">>
b1 == <<"b", "1">>

True == [bool |-> TRUE, truth |-> TRUE]
False == [bool |-> TRUE, truth |-> FALSE]

Neither == "Neither inf, nor b1 in the string"
NotBoolean == "Uncertainty must be a boolean variable"
Overwritten == "The variable will be overwritten"

_lookupDefaultingToInf(variablename, uncertainty) ==
    IF Contains(b1, variablename)
    THEN IF ~uncertainty.truth THEN "b1Exp" ELSE "b1Unc"
    ELSE IF ~uncertainty.truth THEN "infExp" ELSE "infUnc"

\* _lookup: the dictionary of the variable, by name; "None" when the name is
\* of neither family (messages.error is called and nothing is returned)
_lookup(variablename, uncertainty) ==
    IF Contains(inf, variablename)
    THEN IF ~uncertainty.truth THEN "infExp" ELSE "infUnc"
    ELSE IF Contains(b1, variablename)
    THEN IF ~uncertainty.truth THEN "b1Exp" ELSE "b1Unc"
    ELSE "None"

\* the four dictionaries of the universe, by name
Dictionaries ==
    [infExp |-> infExp, infUnc |-> infUnc, b1Exp |-> b1Exp, b1Unc |-> b1Unc]

warnsAlways(setter, variablename) == TRUE

\* variablename in setter
isPresent(setter, variablename) == variablename \in DOMAIN setter

\* setter[variablename] = variablevalue
setItem(setter, variablename, variablevalue) ==
    [n \in DOMAIN setter \cup {variablename} |->
        IF n = variablename THEN variablevalue ELSE setter[n]]

\* setter.get(variablename): the value in a tuple, or the empty tuple for None
getItem(setter, variablename) ==
    IF variablename \in DOMAIN setter THEN <<setter[variablename]>> ELSE <<>>

\* How a call ends after messages.error: with the exception messages.error
\* raises or, if it only logs, with the TypeError of the statement after it.
Failed(message) == Raised("Exception", <<message>>)

UnivFrame == UNCHANGED <<infExp, infUnc, b1Exp, b1Unc>>

set(variablename, variablevalue, uncertainty) ==
    LET name == Converted[variablename]
        which == _lookup(name, uncertainty)
    IN  /\ ucall' = [op |-> "set", name |-> variablename, value |-> variablevalue,
                     uncertainty |-> uncertainty]
        /\ IF ~uncertainty.bool
           THEN /\ uret' = Failed(NotBoolean)
                /\ ulog' = <<NotBoolean>>
                /\ UnivFrame
           ELSE IF which = "None"
           THEN /\ uret' = Failed(Neither)
                /\ ulog' = <<Neither>>
                /\ UnivFrame
           ELSE LET setter == Dictionaries[which]
                    after == setItem(setter, name, variablevalue)
                IN  /\ ulog' = IF isPresent(setter, name) THEN <<Overwritten>> ELSE <<>>
                    /\ uret' = Returned(<<>>)
                    /\ infExp' = IF which = "infExp" THEN after ELSE infExp
                    /\ infUnc' = IF which = "infUnc" THEN after ELSE infUnc
                    /\ b1Exp' = IF which = "b1Exp" THEN after ELSE b1Exp
                    /\ b1Unc' = IF which = "b1Unc" THEN after ELSE b1Unc

get(variablename, uncertainty) ==
    LET name == Converted[variablename]
        which == _lookup(name, uncertainty)
    IN  /\ ucall' = [op |-> "get", name |-> variablename, value |-> 0,
                     uncertainty |-> uncertainty]
        /\ UnivFrame
        /\ IF ~uncertainty.bool
           THEN /\ uret' = Failed(NotBoolean)
                /\ ulog' = <<NotBoolean>>
           ELSE IF which = "None"
           THEN /\ uret' = Failed(Neither)
                /\ ulog' = <<Neither>>
           ELSE LET setter == Dictionaries[which]
                    x == getItem(setter, name)
                    dx == getItem(setter, name)
                IN  /\ ulog' = <<>>
                    /\ uret' = IF ~uncertainty.truth
                               THEN Returned(<<x>>)
                               ELSE Returned(<<x, dx>>)

----------------------------------------------------------------------------
(* DepletedMaterial *)

Some(v) == [loaded |-> TRUE, v |-> v]
Array1(entries) == [nd |-> 1, rows |-> <<entries>>]
Array2(rows) == [nd |-> 2, rows |-> rows]

ReturnedArray(array) == [ok |-> TRUE, exc |-> "", msg |-> <<>>, val |-> array]
RaisedIn(exc, msg) == [ok |-> FALSE, exc |-> exc, msg |-> msg, val |-> NoArray]

burnup == <<"b", "u", "r", "n", "u", "p">>
adens == <<"a", "d", "e", "n", "s">>
mdens == <<"m", "d", "e", "n", "s">>
daysUnit == <<"d", "a", "y", "s">>

\* the text given to addData: one string, or a list of lines; each line is
\* given by the numbers it holds, an empty line by none
RawString(tokens) == [str |-> TRUE, lines |-> <<tokens>>]
RawList(lines) == [str |-> FALSE, lines |-> lines]

\* numpy.array(scratch) in addData: a string gives a 1-D array, a list of
\* lines one row for each line that is not empty
scratchArray(rawData) ==
    IF rawData.str
    THEN Array1(rawData.lines[1])
    ELSE Array2(SelectSeq(rawData.lines, LAMBDA line : line # <<>>))

\* self.data[newName] = numpy.array(scratch)
addDataTo(store, variable, rawData) ==
    LET newName == Converted[variable]
    IN  [c \in DOMAIN store \cup {newName} |->
            IF c = newName THEN scratchArray(rawData) ELSE store[c]]

\* array.shape[0] and len(array.shape)
Shape0(array) == IF array.nd = 1 THEN Len(array.rows[1]) ELSE Len(array.rows)

\* value in array, for a numpy array
InArray(value, array) ==
    \E i \in 1..Len(array.rows) : \E j \in 1..Len(array.rows[i]) :
        array.rows[i][j] = value

\* the x-axis: self.days if xUnits == 'days' else self.data[xUnits]
\* (axis.loaded is false for None; ok is false for a missing key)
XAxis(xUnits) ==
    IF xUnits = daysUnit
    THEN [ok |-> TRUE, none |-> ~days.loaded,
          array |-> IF days.loaded THEN Array1(days.v) ELSE NoArray]
    ELSE IF xUnits \in DOMAIN data
    THEN [ok |-> TRUE, none |-> FALSE, array |-> data[xUnits]]
    ELSE [ok |-> FALSE, none |-> FALSE, array |-> NoArray]

firstBadPoint(valid, timePoints) ==
    LET bad == SelectSeq(timePoints, LAMBDA time : ~InArray(time, valid))
    IN  IF bad = <<>> THEN <<>> ELSE <<ToString(bad[1])>>

\* _checkTimePoints: [str(time) for time in timePoints if time not in valid]
badPoints(valid, timePoints) ==
    LET bad == SelectSeq(timePoints, LAMBDA time : ~InArray(time, valid))
    IN  [i \in 1..Len(bad) |-> ToString(bad[i])]

_checkTimePoints(xUnits, timePoints) ==
    LET valid == XAxis(xUnits)
    IN  IF ~valid.ok THEN RaisedIn("KeyError", <<>>)
        ELSE IF timePoints = <<>> THEN ReturnedArray(NoArray)
        ELSE IF valid.none THEN RaisedIn("TypeError", <<>>)
        ELSE [ok |-> TRUE, exc |-> "", msg |-> badPoints(valid.array, timePoints),
              val |-> NoArray]

\* xx in timePoints, for an entry or a row xx of the x-axis and a list:
\* "error" when the comparison with a row of several numbers has no truth value
InList(xx, timePoints) ==
    IF timePoints = <<>> THEN "no"
    ELSE IF Len(xx) = 1
    THEN IF \E i \in 1..Len(timePoints) : timePoints[i] = xx[1] THEN "yes" ELSE "no"
    ELSE IF Len(xx) = 0 THEN "no"
    ELSE "error"

\* the entries enumerate(allX) gives: the numbers of a 1-D array, the rows of
\* a 2-D one
Entries(array) ==
    IF array.nd = 1
    THEN [i \in 1..Len(array.rows[1]) |-> <<array.rows[1][i]>>]
    ELSE array.rows

\* array[indices], indices a list of positions: the entries of a 1-D array,
\* the rows of a 2-D one; an index past the end is an IndexError
Take(array, indices) ==
    IF \E k \in 1..Len(indices) : indices[k] > Shape0(array)
    THEN RaisedIn("IndexError", <<>>)
    ELSE IF array.nd = 1
    THEN ReturnedArray(Array1([k \in 1..Len(indices) |-> array.rows[1][indices[k]]]))
    ELSE ReturnedArray(Array2([k \in 1..Len(indices) |-> array.rows[indices[k]]]))

\* _getXSlice: xVals and colIndices (cols.loaded is false for None)
_getXSlice(xUnits, timePoints) ==
    LET allX == XAxis(xUnits)
        NoSlice(exc) == [ok |-> FALSE, exc |-> exc, none |-> FALSE,
                         xVals |-> NoArray, colIndices |-> NotLoaded]
    IN  IF ~allX.ok THEN NoSlice("KeyError")
        ELSE IF ~timePoints.loaded
        THEN [ok |-> TRUE, exc |-> "", none |-> allX.none, xVals |-> allX.array,
              colIndices |-> NotLoaded]
        ELSE IF allX.none THEN NoSlice("TypeError")
        ELSE LET entries == Entries(allX.array)
             IN  IF \E i \in 1..Len(entries) : InList(entries[i], timePoints.v) = "error"
                 THEN NoSlice("ValueError")
                 ELSE LET cols == SelectSeq([i \in 1..Len(entries) |-> i],
                                     LAMBDA i : InList(entries[i], timePoints.v) = "yes")
                      IN  [ok |-> TRUE, exc |-> "", none |-> FALSE,
                           xVals |-> Take(allX.array, cols).val,
                           colIndices |-> Some(cols)]

\* list.index: the first position of the isotope in self.names, 0 when absent
Index(list, isotope) ==
    IF \E i \in 1..Len(list) : list[i] = isotope
    THEN CHOOSE i \in 1..Len(list) :
            list[i] = isotope /\ \A j \in 1..(i - 1) : list[j] # isotope
    ELSE 0

_getIsoIDWithoutNames(isotopes) ==
    IF ~isoNames.loaded
    THEN [ok |-> TRUE, exc |-> "", rowIDs |-> <<>>]
    ELSE IF ~isotopes.loaded \/ isotopes.v = <<>>
    THEN [ok |-> TRUE, exc |-> "", rowIDs |-> [i \in 1..Len(isoNames.v) |-> i]]
    ELSE IF \E i \in 1..Len(isotopes.v) : Index(isoNames.v, isotopes.v[i]) = 0
    THEN [ok |-> FALSE, exc |-> "ValueError", rowIDs |-> <<>>]
    ELSE [ok |-> TRUE, exc |-> "",
          rowIDs |-> [i \in 1..Len(isotopes.v) |-> Index(isoNames.v, isotopes.v[i])]]

\* _getIsoID: the row indices of the isotopes
_getIsoID(isotopes) ==
    IF ~isotopes.loaded \/ isotopes.v = <<>>
    THEN IF ~isoNames.loaded
         THEN [ok |-> FALSE, exc |-> "TypeError", rowIDs |-> <<>>]
         ELSE [ok |-> TRUE, exc |-> "", rowIDs |-> [i \in 1..Len(isoNames.v) |-> i]]
    ELSE IF ~isoNames.loaded
    THEN [ok |-> FALSE, exc |-> "AttributeError", rowIDs |-> <<>>]
    ELSE IF \E i \in 1..Len(isotopes.v) : Index(isoNames.v, isotopes.v[i]) = 0
    THEN [ok |-> FALSE, exc |-> "ValueError", rowIDs |-> <<>>]
    ELSE [ok |-> TRUE, exc |-> "",
          rowIDs |-> [i \in 1..Len(isotopes.v) |-> Index(isoNames.v, isotopes.v[i])]]

\* allY.shape[0] == 1 or len(allY.shape) == 1
isVector(allY) == Shape0(allY) = 1 \/ allY.nd = 1

\* len(xVals)
LenOf(array) == Shape0(array)

\* the rows of yVals in the 2-D branch of getValues
sliceRows(allY, rowIndices, colIndices, width) ==
    LET Row(i) == IF colIndices.loaded /\ colIndices.v # <<>>
                  THEN Take(Array1(allY.rows[rowIndices[i]]), colIndices.v)
                  ELSE ReturnedArray(Array1(allY.rows[rowIndices[i]]))
        Fits(row) == Len(row) = width \/ Len(row) = 1
        Fill(row) == IF Len(row) = width THEN row ELSE [j \in 1..width |-> row[1]]
    IN  IF \E i \in 1..Len(rowIndices) : rowIndices[i] > Len(allY.rows)
        THEN RaisedIn("IndexError", <<>>)
        ELSE IF \E i \in 1..Len(rowIndices) : ~Row(i).ok
        THEN RaisedIn("IndexError", <<>>)
        ELSE IF \E i \in 1..Len(rowIndices) : ~Fits(Row(i).val.rows[1])
        THEN RaisedIn("ValueError", <<>>)
        ELSE ReturnedArray(Array2([i \in 1..Len(rowIndices) |-> Fill(Row(i).val.rows[1])]))

\* getValues(xUnits, yUnits, timePoints, names)
getValues(xUnits, yUnits, timePoints, isotopes) ==
    LET timeCheck == IF timePoints.loaded
                     THEN _checkTimePoints(xUnits, timePoints.v)
                     ELSE ReturnedArray(NoArray)
        slice == _getXSlice(xUnits, timePoints)
        rows == _getIsoID(isotopes)
    IN  IF ~timeCheck.ok THEN timeCheck
        ELSE IF timeCheck.msg # <<>> THEN RaisedIn("KeyError", timeCheck.msg)
        ELSE IF isotopes.loaded /\ isotopes.v # <<>> /\ ~isoNames.loaded
        THEN RaisedIn("AttributeError", <<>>)
        ELSE IF ~slice.ok THEN RaisedIn(slice.exc, <<>>)
        ELSE IF ~rows.ok THEN RaisedIn(rows.exc, <<>>)
        ELSE IF yUnits \notin DOMAIN data THEN RaisedIn("KeyError", <<>>)
        ELSE LET allY == data[yUnits]
                 colIndices == slice.colIndices
             IN  IF isVector(allY)
                 THEN IF colIndices.loaded /\ colIndices.v # <<>>
                      THEN Take(allY, colIndices.v)
                      ELSE ReturnedArray(allY)
                 ELSE IF slice.none THEN RaisedIn("TypeError", <<>>)
                 ELSE sliceRows(allY, rows.rowIDs, colIndices, LenOf(slice.xVals))

MatCall(op, variable, xUnits, yUnits, timePoints, isotopes) ==
    [op |-> op, variable |-> variable, xUnits |-> xUnits, yUnits |-> yUnits,
     timePoints |-> timePoints, names |-> isotopes]

----------------------------------------------------------------------------
(* The objects as their constructors leave them *)

\* HomogUniv.__init__
UnivInit ==
    /\ infExp = NoMap /\ infUnc = NoMap /\ b1Exp = NoMap /\ b1Unc = NoMap
    /\ ucall = [op |-> "init", name |-> <<>>, value |-> 0,
                uncertainty |-> [bool |-> TRUE, truth |-> FALSE]]
    /\ uret = Returned(<<>>)
    /\ ulog = <<>>

\* DetectorReader.__init__, before any file is given
ReaderIdle ==
    /\ fileChunks = <<>> /\ names = {} /\ _loadAll = TRUE
    /\ detectors = [n \in {} |-> Detector(<<>>)]
    /\ detCount = 0 /\ chunkNo = 1 /\ pc = "precheck" /\ reported = {}

NoCall == MatCall("init", <<>>, <<>>, <<>>, NotLoaded, NotLoaded)

\* DepletedMaterial.__init__ with a parser that holds no metadata
MaterialIdle ==
    /\ isoNames = NotLoaded /\ days = NotLoaded
    /\ data = [c \in {} |-> NoArray]
    /\ __burnup__ = NotCached /\ __adens__ = NotCached /\ __mdens__ = NotCached
    /\ mcall = NoCall
    /\ mret = ReturnedArray(NoArray)

----------------------------------------------------------------------------
(* The detector files read *)

\* the names after the DET prefix; SERPENT writes no detector without a name
D1 == <<"D", "1">>
D1E == <<"D", "1", "E">>
D2 == <<"D", "2">>
DetStrings == {D1, D1E, D2}

\* one tally line of NUM_COLS numbers; one line of a single number; two
\* lines of three numbers
TallyBody == <<[j \in 1..NUM_COLS |-> j]>>
ScalarBody == <<<<7>>>>
GridBody == <<<<1, 2, 3>>, <<4, 5, 6>>>>
Bodies == {TallyBody, ScalarBody, GridBody}

Chunks == {Chunk(s, b) : s \in DetStrings, b \in Bodies}
Files == UNION {[1..k -> Chunks] : k \in 0..MaxChunks}
NameSettings == {{}, {D1}, {D1, D2}}

\* DetectorReader.__init__
ReaderInit ==
    /\ fileChunks \in Files
    /\ names \in NameSettings
    /\ _loadAll = (names = {})
    /\ detectors = [n \in {} |-> Detector(<<>>)]
    /\ detCount = 0
    /\ chunkNo = 1
    /\ pc = "precheck"
    /\ reported = {}

InitDetector == ReaderInit /\ UnivInit /\ MaterialIdle

NextDetector ==
    \/ Precheck
    \/ ReadGridChunk
    \/ ReadTallyChunk
    \/ SkipChunk
    \/ ReadDone
    \/ Postcheck

SpecDetector == InitDetector /\ [][NextDetector]_vars

----------------------------------------------------------------------------
(* Claims on the detector reader *)

ThisChunk == fileChunks[chunkNo]
ThisString == DetString(ThisChunk)
Rows(chunk) == [k \in 1..Len(Body(chunk)) |-> Body(chunk)[k].row]
ReadingChunk == pc = "read" /\ chunkNo <= Len(fileChunks)

\* The chunk being read is stored as a grid of the container n under key b,
\* and nothing else of the detectors changes.
GridAdded(n, b) ==
    /\ n \in DOMAIN detectors
    /\ DOMAIN detectors' = DOMAIN detectors
    /\ \A m \in DOMAIN detectors \ {n} : detectors'[m] = detectors[m]
    /\ detectors'[n].tally = detectors[n].tally
    /\ DOMAIN detectors'[n].grids = DOMAIN detectors[n].grids \cup {b}
    /\ \A c \in DOMAIN detectors[n].grids \ {b} :
          detectors'[n].grids[c] = detectors[n].grids[c]

\* C1: the tally array of a container is set once, by the chunk that creates
\* the container (a chunk of NUM_COLS-wide lines becomes the tally as it
\* stands, and the new container has no grids); a container never disappears
\* and its tally never changes afterwards; a later chunk that is read and
\* names an existing container, by the name plus one character or by the
\* same name again, only adds an entry to one container's grids.
C1_TallySetOnce ==
    [][ /\ \A n \in DOMAIN detectors :
              n \in DOMAIN detectors' /\ detectors'[n].tally = detectors[n].tally
        /\ \A n \in DOMAIN detectors' \ DOMAIN detectors :
              /\ ReadingChunk
              /\ n = ThisString
              /\ DOMAIN detectors'[n].grids = {}
              /\ Len(detectors'[n].tally) = Len(Rows(ThisChunk))
              /\ (\A k \in 1..Len(Rows(ThisChunk)) : Len(Rows(ThisChunk)[k]) = NUM_COLS)
                    => detectors'[n].tally = Rows(ThisChunk)
        /\ ( /\ ReadingChunk
             /\ chunkNo' = chunkNo + 1
             /\ (Front(ThisString) \in DOMAIN detectors \/ ThisString \in DOMAIN detectors) )
           => \/ GridAdded(Front(ThisString), ThisString[Len(ThisString)])
              \/ GridAdded(ThisString, NoBin)
      ]_vars

\* D1 was defined by a tally chunk, then received the grid chunk D1E and a
\* second chunk named D1.
C1_Witness ==
    /\ pc = "done"
    /\ D1 \in DOMAIN detectors
    /\ detectors[D1].tally = TallyBody
    /\ DOMAIN detectors[D1].grids = {"E", NoBin}

\* C2: with a name filter, a chunk whose identifier is not requested and
\* whose identifier without its last character names no container leaves
\* the detectors as they are and the scan goes on; and every key of detectors
\* is a requested name.
C2_SkipUnrequested ==
    [][ /\ ( /\ ReadingChunk
             /\ ~_loadAll
             /\ ThisString \notin names
             /\ Front(ThisString) \notin DOMAIN detectors )
           => (detectors' = detectors /\ pc' = "read" /\ chunkNo' = chunkNo + 1)
        /\ ~_loadAll' => DOMAIN detectors' \subseteq names'
      ]_vars

\* A filtered scan that kept a container and passed over an unrequested chunk.
C2_Witness ==
    /\ pc = "done"
    /\ ~_loadAll
    /\ detectors # [n \in {} |-> Detector(<<>>)]
    /\ \E i \in 1..Len(fileChunks) :
          /\ DetString(fileChunks[i]) \notin names
          /\ Front(DetString(fileChunks[i])) \notin DOMAIN detectors

\* C3: when the count of _precheck differs from the number of containers,
\* _postcheck reports the mismatch, and it leaves detectors unchanged.
C3_PostcheckKeepsDetectors ==
    [][ (pc = "postcheck" /\ pc' = "done")
           => /\ detectors' = detectors
              /\ (detCount # Cardinality(DOMAIN detectors)) => Mismatch \in reported'
      ]_vars

\* Three start lines, two containers, one chunk excluded by the name filter.
C3_Witness ==
    /\ pc = "done"
    /\ ~_loadAll
    /\ detCount = 3
    /\ Cardinality(DOMAIN detectors) = 2
    /\ Mismatch \in reported

\* A file of detector records: each chunk is the tally chunk of a detector
\* (NUM_COLS-wide lines, a name no other tally chunk has and that is not
\* another detector's name plus one character), or a grid chunk of the
\* detector whose tally chunk precedes it.
RecordFile(f) ==
    /\ Len(f) > 0
    /\ \E lab \in [1..Len(f) -> {"tally", "grid"}] :
          \A i \in 1..Len(f) :
             LET s == DetString(f[i])
             IN  IF lab[i] = "tally"
                 THEN /\ \A j \in 1..Len(f) :
                            (j # i /\ lab[j] = "tally")
                               => DetString(f[j]) \notin {s, Front(s)}
                      /\ \A k \in 1..Len(Rows(f[i])) : Len(Rows(f[i])[k]) = NUM_COLS
                 ELSE /\ Len(Rows(f[i])) > 0
                      /\ \A k \in 1..Len(Rows(f[i])) :
                            Len(Rows(f[i])[k]) = Len(Rows(f[i])[1])
                      /\ \E j \in 1..(i - 1) :
                            /\ lab[j] = "tally"
                            /\ \A k \in (j + 1)..(i - 1) : lab[k] = "grid"
                            /\ Len(s) > 0 /\ Front(s) = DetString(f[j])

\* C10: in all-names mode, for a file of detector records, _precheck, _read
\* and _postcheck end without a count mismatch: detCount is the number of
\* containers.
C10_NoMismatch ==
    (pc = "done" /\ _loadAll /\ RecordFile(fileChunks))
       => (Mismatch \notin reported /\ detCount = Cardinality(DOMAIN detectors))

----------------------------------------------------------------------------
(* The calls made on a universe *)

Values == {1, 2}
\* a flag that is no bool, such as the integer 1
NotABool == [bool |-> FALSE, truth |-> TRUE]
Flags == {True, False, NotABool}

Set ==
    /\ \E n \in VariableNames, v \in Values, u \in Flags : set(n, v, u)
    /\ UNCHANGED <<detVars, matVars>>

Get ==
    /\ \E n \in VariableNames, u \in Flags : get(n, u)
    /\ UNCHANGED <<detVars, matVars>>

InitUniv == UnivInit /\ ReaderIdle /\ MaterialIdle

NextUniv == Set \/ Get

SpecUniv == InitUniv /\ [][NextUniv]_vars

----------------------------------------------------------------------------
(* Claims on HomogUniv *)

\* the normalized name holds "inf" or "b1"
Classifies(variablename) ==
    \/ Contains(inf, Converted[variablename])
    \/ Contains(b1, Converted[variablename])

\* the dictionary that holds the variable for a boolean flag
SlotOf(variablename, uncertainty) == _lookup(Converted[variablename], uncertainty)

Warnings(log) == Cardinality({i \in 1..Len(log) : log[i] = Overwritten})

\* C4: for a name that classifies, get(name) right after set(name, v)
\* returns v; a set of a name its dictionary does not hold yet emits no
\* overwrite warning; a set of a name its dictionary holds (same normalized
\* name, same flag) emits exactly one overwrite warning and replaces the value.
C4_RoundTrip ==
    [][ /\ ( /\ ucall.op = "set" /\ uret.ok /\ ucall.uncertainty = False
             /\ ucall'.op = "get" /\ ucall'.name = ucall.name
             /\ ucall'.uncertainty = False )
           => uret' = Returned(<< <<ucall.value>> >>)
        /\ ( /\ ucall'.op = "set" /\ ucall'.uncertainty.bool
             /\ Classifies(ucall'.name) )
           => LET slot == SlotOf(ucall'.name, ucall'.uncertainty)
                  name == Converted[ucall'.name]
              IN  /\ uret'.ok
                  /\ Warnings(ulog') = IF name \in DOMAIN Dictionaries[slot] THEN 1 ELSE 0
                  /\ Dictionaries'[slot][name] = ucall'.value
      ]_vars

\* A second set of INF_KINF, under another spelling, warned and replaced the
\* value 1 by 2.
C4_Witness ==
    /\ ucall.op = "set" /\ ucall.name = Inf_Kinf /\ ucall.value = 2
    /\ ucall.uncertainty = False
    /\ Warnings(ulog) = 1
    /\ infExp[Converted[INF_KINF]] = 2

\* C5: set with a name whose normalized form holds neither "inf" nor "b1"
\* fails with the classification error and leaves the four dictionaries as
\* they were; a set of a name that classifies changes one dictionary only,
\* which then holds the value under the normalized name.
C5_ClassificationError ==
    [][ ucall'.op = "set" /\ ucall'.uncertainty.bool
           => LET name == Converted[ucall'.name]
                  changed == {k \in DOMAIN Dictionaries : Dictionaries'[k] # Dictionaries[k]}
              IN  IF ~Contains(inf, name) /\ ~Contains(b1, name)
                  THEN /\ ~uret'.ok
                       /\ Neither \in Range(ulog')
                       /\ changed = {}
                  ELSE /\ uret'.ok
                       /\ Cardinality(changed) <= 1
                       /\ \E k \in DOMAIN Dictionaries :
                             /\ changed \subseteq {k}
                             /\ name \in DOMAIN Dictionaries'[k]
                             /\ Dictionaries'[k][name] = ucall'.value
      ]_vars

\* set("ABS_INF", ...) failed on a universe that holds variables.
C5_Witness ==
    /\ ucall.op = "set" /\ ucall.name = ABS_INF /\ ucall.uncertainty.bool
    /\ ~uret.ok
    /\ infExp # NoMap /\ b1Unc # NoMap

----------------------------------------------------------------------------
(* The materials and the calls made on them *)

MaxPoints == 2
MaxNames == 2

IsotopeLists == {<<"Xe135">>, <<"Xe135", "Sm149", "total">>}
DayAxis == <<0, 10, 20>>
BurnupText == <<0, 5, 9>>
\* the text "0 5 9", the list of that one line, and a list of three lines
\* of numbers with an empty line among them
RawData == {RawString(BurnupText),
            RawList(<<BurnupText>>),
            RawList(<<<<1, 2, 3>>, <<>>, <<4, 5, 6>>, <<7, 8, 9>>>>)}

\* DepletedMaterial.__init__: the metadata of the parser, or None
MaterialInit ==
    /\ isoNames \in {NotLoaded} \cup {Some(l) : l \in IsotopeLists}
    /\ days \in {NotLoaded, Some(DayAxis)}
    /\ data = [c \in {} |-> NoArray]
    /\ __burnup__ = NotCached /\ __adens__ = NotCached /\ __mdens__ = NotCached
    /\ mcall = NoCall
    /\ mret = ReturnedArray(NoArray)

MatFrame == UNCHANGED <<detVars, univVars, isoNames, days>>

addData ==
    /\ \E variable \in Categories, rawData \in RawData :
          /\ data' = addDataTo(data, variable, rawData)
          /\ mcall' = MatCall("addData", variable, <<>>, <<>>, NotLoaded, NotLoaded)
    /\ mret' = ReturnedArray(NoArray)
    /\ UNCHANGED <<__burnup__, __adens__, __mdens__>>
    /\ MatFrame

\* the attribute after a read of the property, and what the read returns
Property(category, attribute) ==
    IF category \notin DOMAIN data THEN attribute
    ELSE IF ~attribute.cached THEN [cached |-> TRUE, array |-> data[category]]
    ELSE attribute

PropertyValue(category, attribute) ==
    IF category \notin DOMAIN data
    THEN RaisedIn("AttributeError", <<>>)
    ELSE ReturnedArray(Property(category, attribute).array)

Burnup ==
    /\ __burnup__' = Property(burnup, __burnup__)
    /\ mret' = PropertyValue(burnup, __burnup__)
    /\ mcall' = MatCall("burnup", burnup, <<>>, <<>>, NotLoaded, NotLoaded)
    /\ UNCHANGED <<data, __adens__, __mdens__>>
    /\ MatFrame

Adens ==
    /\ __adens__' = Property(adens, __adens__)
    /\ mret' = PropertyValue(adens, __adens__)
    /\ mcall' = MatCall("adens", adens, <<>>, <<>>, NotLoaded, NotLoaded)
    /\ UNCHANGED <<data, __burnup__, __mdens__>>
    /\ MatFrame

Mdens ==
    /\ __mdens__' = Property(mdens, __mdens__)
    /\ mret' = PropertyValue(mdens, __mdens__)
    /\ mcall' = MatCall("mdens", mdens, <<>>, <<>>, NotLoaded, NotLoaded)
    /\ UNCHANGED <<data, __burnup__, __adens__>>
    /\ MatFrame

__getitem__ ==
    /\ \E item \in {burnup, adens, mdens} :
          /\ mcall' = MatCall("getitem", item, <<>>, <<>>, NotLoaded, NotLoaded)
          /\ mret' = IF item \notin DOMAIN data
                     THEN RaisedIn("KeyError", <<>>)
                     ELSE ReturnedArray(data[item])
    /\ UNCHANGED <<data, __burnup__, __adens__, __mdens__>>
    /\ MatFrame

InitMaterial == MaterialInit /\ days.loaded /\ isoNames.loaded /\ ReaderIdle /\ UnivInit

NextMaterial ==
    \/ addData
    \/ Burnup
    \/ Adens
    \/ Mdens
    \/ __getitem__

SpecMaterial == InitMaterial /\ [][NextMaterial]_vars

\* lists of at most n members of S
ListsUpTo(S, n) == UNION {[1..k -> S] : k \in 0..n}

TimeValues == {0, 15, 20}
IsotopeRequests == {"Xe135", "total", "Pu239"}
TimePointLists == {NotLoaded} \cup {Some(l) : l \in ListsUpTo(TimeValues, MaxPoints)}
NameLists == {NotLoaded} \cup {Some(l) : l \in ListsUpTo(IsotopeRequests, MaxNames)}

\* the call has not returned
Pending == RaisedIn("", <<>>)

\* a material on which burnup and adens were added, and the call of
\* getValues about to be made on it
InitLoaded ==
    /\ isoNames \in {NotLoaded} \cup {Some(l) : l \in IsotopeLists}
    /\ days \in {NotLoaded, Some(DayAxis)}
    /\ \E rawBurnup \in {RawString(BurnupText), RawList(<<BurnupText>>)},
          rawAdens \in RawData \ {RawString(BurnupText)} :
          data = addDataTo(addDataTo([c \in {} |-> NoArray], BURNUP, rawBurnup),
                           ADENS, rawAdens)
    /\ __burnup__ = NotCached /\ __adens__ = NotCached /\ __mdens__ = NotCached
    /\ \E xUnits \in {daysUnit, burnup}, yUnits \in {adens, burnup},
          timePoints \in TimePointLists, isotopes \in NameLists :
          mcall = MatCall("getValues", <<>>, xUnits, yUnits, timePoints, isotopes)
    /\ mret = Pending
    /\ ReaderIdle /\ UnivInit

GetValues ==
    /\ mcall.op = "getValues" /\ mret = Pending
    /\ mret' = getValues(mcall.xUnits, mcall.yUnits, mcall.timePoints, mcall.names)
    /\ UNCHANGED <<mcall, data, __burnup__, __adens__, __mdens__>>
    /\ MatFrame

SpecGetValues == InitLoaded /\ [][GetValues]_vars

----------------------------------------------------------------------------
(* Claims on DepletedMaterial *)

HasReturned == mcall.op = "getValues" /\ mret # Pending

\* the x-axis of the call is there: the days were loaded, or the category
\* named by xUnits is stored
AxisLoaded ==
    IF mcall.xUnits = daysUnit THEN days.loaded ELSE mcall.xUnits \in DOMAIN data

\* its values, in order
AxisValues ==
    IF mcall.xUnits = daysUnit THEN days.v ELSE Flatten(data[mcall.xUnits].rows)

AxisIs1D == mcall.xUnits = daysUnit \/ data[mcall.xUnits].nd = 1

Requested == mcall.timePoints.v
AllPresent == \A i \in 1..Len(Requested) : Requested[i] \in Range(AxisValues)

\* the positions of the x-axis whose value is requested
MatchingColumns ==
    SelectSeq([i \in 1..Len(AxisValues) |-> i],
              LAMBDA i : AxisValues[i] \in Range(Requested))

RowOf(isotope) == CHOOSE j \in 1..Len(isoNames.v) : isoNames.v[j] = isotope

\* C6: for a 2-D category with one row for each isotope name and one column
\* for each point of the x-axis, getValues with requested time points that
\* are all on the x-axis and requested names that are all isotope names
\* (both lists not empty, no time point twice) returns the array whose row i
\* is the stored row of names[i] at the columns of the requested points.
C6_Slice2D ==
    ( /\ HasReturned
      /\ mcall.yUnits \in DOMAIN data /\ data[mcall.yUnits].nd = 2
      /\ isoNames.loaded /\ Len(data[mcall.yUnits].rows) = Len(isoNames.v)
      /\ AxisLoaded /\ AxisIs1D
      /\ \A r \in 1..Len(data[mcall.yUnits].rows) :
            Len(data[mcall.yUnits].rows[r]) = Len(AxisValues)
      /\ mcall.timePoints.loaded /\ Requested # <<>> /\ AllPresent
      /\ Cardinality(Range(Requested)) = Len(Requested)
      /\ mcall.names.loaded /\ mcall.names.v # <<>>
      /\ Range(mcall.names.v) \subseteq Range(isoNames.v) )
    => mret = ReturnedArray(Array2(
                 [i \in 1..Len(mcall.names.v) |->
                     [k \in 1..Len(Requested) |->
                         data[mcall.yUnits].rows[RowOf(mcall.names.v[i])][MatchingColumns[k]]]]))

\* C7: getValues with time points of which one at least is not on the
\* x-axis raises the lookup error, whose message holds every missing point,
\* returns no array, and leaves data, names and days as they were.
C7_MissingPoints ==
    [][ ( /\ HasReturned'
          /\ mcall'.timePoints.loaded /\ AxisLoaded'
          /\ ~AllPresent' )
        => /\ ~mret'.ok /\ mret'.exc = "KeyError" /\ mret'.val = NoArray
           /\ \A i \in 1..Len(Requested') :
                 Requested'[i] \notin Range(AxisValues')
                    => ToString(Requested'[i]) \in Range(mret'.msg)
           /\ UNCHANGED <<data, isoNames, days>>
      ]_vars

\* 15 and 20 were requested on the burnup axis 0, 5, 9.
C7_Witness ==
    /\ HasReturned
    /\ mcall.xUnits = burnup /\ mcall.timePoints = Some(<<15, 20>>)
    /\ mret.msg = <<"15", "20">>

\* the call is on a 1-D category, and the time points, when given, are
\* all on the x-axis
OneDimCall ==
    /\ HasReturned
    /\ mcall.yUnits \in DOMAIN data /\ data[mcall.yUnits].nd = 1
    /\ mcall.timePoints.loaded => (AxisLoaded /\ AllPresent)

SeriesAtColumns ==
    Array1([k \in 1..Len(MatchingColumns) |->
               data[mcall.yUnits].rows[1][MatchingColumns[k]]])

C9_AccessorsCurrent ==
    (mcall.op \in {"burnup", "adens", "mdens"} /\ mret.ok)
    => mret.val = data[mcall.variable]

====
